---- MODULE Spec2Model ----
(***************************************************************************)
(* Deepfake detection service (backend/app): the Grad-CAM explanation      *)
(* engine, the classifier adapter's capture slot, the detection            *)
(* orchestration and the /detect endpoint running on one asyncio loop, the  *)
(* session cache behind the report endpoint and the retention operations   *)
(* on the results directory.  Times are in minutes.                        *)
(*                                                                         *)
(* Numbers: tensors hold small integers.  A channel weight is the spatial  *)
(* mean of the gradient; the model keeps the spatial SUM instead, so every *)
(* map value is the code's value times NumPos (> 0).  relu, min, max and   *)
(* the comparison cam_max > cam_min are unchanged by that factor, and the  *)
(* normalised value (cam - min) / (max - min + 1e-8) is kept as the exact  *)
(* fraction <<num, den>> with the factor carried into the epsilon term.    *)
(* Probabilities are in thousandths.                                       *)
(***************************************************************************)
EXTENDS Integers, Sequences, FiniteSets, TLC

\* ------------------------------------------------------------------ bounds
NumReqs     == 2   \* detect requests per run
MaxCalls    == 2   \* direct generate_cam calls per run
MaxLogit    == 1   \* logits range over -MaxLogit..MaxLogit
NumChannels == 2   \* channels C of the captured feature map
NumPos      == 2   \* spatial cells h*w of the captured feature map
MaxVal      == 2   \* tensor entries range over -MaxVal..MaxVal
MaxActMass  == 3   \* sum of |entry| of an enumerated activation tensor
MaxGradMass == 1   \* sum of |entry| of an enumerated gradient tensor
NumUuids    == 2   \* distinct values of the random filename suffix
NumSessions == 2   \* distinct session identifiers
MaxClock    == 120 \* the clock stops advancing at this many minutes
MaxFiles    == 3   \* gradcam_*.png names an enumerated results directory can hold
MaxAgeHours == 48  \* age in hours of the oldest enumerated result file
NumParams   == 2   \* named parameters of the model's state_dict
MaxSweeps   == 2   \* midnights the scheduler lives through

\* ------------------------------------------------------- program constants
IMAGE_SIZE == 224          \* settings.IMAGE_SIZE
EpsInv     == 100000000    \* 1 / 1e-8, the normalisation epsilon
Half       == 500          \* the 0.5 decision threshold, in thousandths
MAX_IMAGE_SIZE_MB == 10    \* settings.MAX_IMAGE_SIZE_MB
CACHE_CLEANUP_INTERVAL_MINUTES == 60   \* session_cache
MAX_SESSION_AGE_MINUTES == 60          \* session_cache
MAX_CACHE_SIZE == 1000000              \* session_cache
RESULTS_CLEANUP_HOURS == 24            \* settings.RESULTS_CLEANUP_HOURS
RESULTS_MAX_FILES == 1000              \* settings.RESULTS_MAX_FILES

Reqs == 1..NumReqs
Chan == 1..NumChannels
Pos  == 1..NumPos
Vals == (0 - MaxVal)..MaxVal

VARIABLES
    phase,          \* "created" | "serving" | "failed": before / after initialize_model_and_services
    featuresRG,     \* requires_grad of the backbone (features) parameters
    classifierRG,   \* requires_grad of the classification head parameters
    activations,    \* DeepfakeDetector.activations (capture slot)
    gradients,      \* DeepfakeDetector.gradients   (capture slot)
    nextCall,       \* identity of the next generate_cam call
    cam,            \* generate_cam frames, one per caller (0 = direct caller)
    running,        \* request whose coroutine holds the event-loop thread, 0 = none
    req,            \* detect requests
    results,        \* settings.RESULTS_DIR: file name -> modification time
    red,            \* inputs and output of the reduction of lines 91-117 taken alone
    clock,          \* datetime.now(), in minutes
    detection_cache,\* session_cache.detection_cache: session id -> entry
    nextCleanup,    \* time at which _periodic_cache_cleanup wakes from its sleep
    registered,     \* session id -> time of the last add_session call for it
    last,           \* the last completed report / cleanup call and what it returned
    model,          \* the served model: weights, mode, wrapper, and how startup went
    sched,          \* run_daily_cleanup_scheduler's task and the shutdown of lifespan
    sweep           \* the cleanup_old_files call running in the scheduler's worker thread

\* The state of the session cache and of the retention operations.
storeVars == <<clock, detection_cache, nextCleanup, registered, last>>

\* The model object and the background cleanup of result files.
taskVars == <<model, sched, sweep>>

vars == <<phase, featuresRG, classifierRG, activations, gradients, nextCall,
          cam, running, req, results, red, storeVars, taskVars>>

\* ------------------------------------------------------------------- tasks
\* The model as DeepfakeDetector() builds it, before any startup; no
\* scheduler task and no cleanup thread yet.
NoModel == [built |-> FALSE]
\* sched: the scheduler coroutine (pc), the stop event, the cleanups it has
\* started (runs), and lifespan's shutdown with the listing its storage
\* statistics took.  sweep: the cleanup_old_files call in the worker thread.
NoSched == [pc |-> "none", stop |-> FALSE, runs |-> 0, shutdown |-> "no", listed |-> {}]
NoSweep == [pc |-> "idle", now |-> 0, remaining |-> {}, cur |-> <<>>,
            deleted |-> 0, failed |-> FALSE]

InitTasks ==
    /\ model = NoModel
    /\ sched = NoSched
    /\ sweep = NoSweep

\* ------------------------------------------------------------------ stores
\* A directory is a function from file names to modification times.
Put(dir, name, mtime) ==
    [n \in DOMAIN dir \cup {name} |-> IF n = name THEN mtime ELSE dir[n]]

\* dir without the files of `names`
Without(dir, names) == [n \in DOMAIN dir \ names |-> dir[n]]

\* No report or cleanup call has completed yet.
NoCall == [op |-> "", arg |-> <<>>]

\* The module-level state of session_cache when the application has started:
\* no session, and the cleanup task (main.py, start_cache_cleanup_task) in its
\* first sleep.
InitStore ==
    /\ clock = 0
    /\ detection_cache = <<>>
    /\ nextCleanup = CACHE_CLEANUP_INTERVAL_MINUTES
    /\ registered = <<>>
    /\ last = NoCall

\* ----------------------------------------------------------------- tensors
Abs(x) == IF x < 0 THEN 0 - x ELSE x
Max2(a, b) == IF a >= b THEN a ELSE b
Min2(a, b) == IF a <= b THEN a ELSE b

RECURSIVE SumSeq(_)
SumSeq(s) == IF s = <<>> THEN 0 ELSE Head(s) + SumSeq(Tail(s))

RECURSIVE MaxSeq(_)
MaxSeq(s) == IF Len(s) = 1 THEN s[1] ELSE Max2(Head(s), MaxSeq(Tail(s)))

RECURSIVE MinSeq(_)
MinSeq(s) == IF Len(s) = 1 THEN s[1] ELSE Min2(Head(s), MinSeq(Tail(s)))

\* A tensor of shape (1, C, h, w): channels x flattened spatial cells.
ZeroTensor == [c \in Chan |-> [p \in Pos |-> 0]]
Mass(t) == SumSeq([c \in Chan |-> SumSeq([p \in Pos |-> Abs(t[c][p])])])

RECURSIVE TensorsOfMass(_)
TensorsOfMass(m) ==
    IF m = 0 THEN {ZeroTensor}
    ELSE LET S == TensorsOfMass(m - 1)
         IN  S \cup { u \in { [t EXCEPT ![x[1]][x[2]] = @ + x[3]] :
                               t \in S, x \in Chan \X Pos \X {0 - 1, 1} } :
                      /\ \A c \in Chan, p \in Pos : u[c][p] \in Vals
                      /\ Mass(u) = m }

ActTensors  == TensorsOfMass(MaxActMass)
GradTensors == TensorsOfMass(MaxGradMass)

Negate(t) == [c \in Chan |-> [p \in Pos |-> 0 - t[c][p]]]

\* The capture slot holds None or a tensor; `call` names the generate_cam call
\* whose forward (activations) or backward (gradients) pass stored it.
None == [call |-> 0, data |-> <<>>]
Captured(call, t) == [call |-> call, data |-> t]

\* ------------------------------------------------------- importance maps
\* A map of shape (rows, cols) is kept sparse: `nz` gives the value of every
\* cell whose value is not zero, as an exact fraction <<num, den>>; the cells
\* outside DOMAIN nz are 0.
NoMap == [rows |-> 0, cols |-> 0, nz |-> <<>>]

\* np.zeros((rows, cols)) and torch.zeros_like
ZeroMap(rows, cols) == [rows |-> rows, cols |-> cols, nz |-> <<>>]

\* A (1, cols) map from the fraction of every cell.
MapOf(fr) ==
    [rows |-> 1, cols |-> Len(fr),
     nz |-> [p \in {q \in DOMAIN fr : fr[q][1] # 0} |-> fr[p]]]

\* weights = torch.mean(gradients, dim=(2, 3)), times NumPos
Weights(g) == [c \in Chan |-> SumSeq(g[c])]

\* cam = torch.sum(weights * activations, dim=1).squeeze(), times NumPos
WeightedSum(g, a) == [p \in Pos |-> SumSeq([c \in Chan |-> Weights(g)[c] * a[c][p]])]

\* cam = torch.relu(cam)
Relu(m) == [p \in DOMAIN m |-> Max2(m[p], 0)]

\* The test that selects the normalising branch.
NormaliseAlways(cam_max, cam_min) == TRUE
ShouldNormalise(cam_max, cam_min) == cam_max > cam_min

\* (cam - cam_min) / (cam_max - cam_min + 1e-8), the fraction kept exact
NormaliseUnclipped(m, cam_min, cam_max) ==
    [p \in DOMAIN m |-> <<m[p] * EpsInv, (cam_max - cam_min) * EpsInv + NumPos>>]
Normalise(m, cam_min, cam_max) ==
    [p \in DOMAIN m |-> <<(m[p] - cam_min) * EpsInv, (cam_max - cam_min) * EpsInv + NumPos>>]

\* generate_cam after the backward pass: the None check, the reduction, the
\* rectification and the min-max normalisation.  `divided` records whether the
\* division was evaluated, `rect` is the rectified map before normalisation.
ReduceCam(g, a, in_rows, in_cols) ==
    IF g = None \/ a = None
    THEN [map |-> ZeroMap(in_rows, in_cols), divided |-> FALSE,
          missing |-> TRUE, rect |-> <<>>]
    ELSE LET rect    == Relu(WeightedSum(g.data, a.data))
             cam_min == MinSeq(rect)
             cam_max == MaxSeq(rect)
         IN  IF ShouldNormalise(cam_max, cam_min)
             THEN [map |-> MapOf(Normalise(rect, cam_min, cam_max)),
                   divided |-> TRUE, missing |-> FALSE, rect |-> rect]
             ELSE [map |-> ZeroMap(1, NumPos), divided |-> FALSE,
                   missing |-> FALSE, rect |-> rect]

NoReduction == [map |-> NoMap, divided |-> FALSE, missing |-> FALSE, rect |-> <<>>]

\* ------------------------------------------------------ the classifier
\* The network is a fixed function of its input.  An input tensor is named by
\* what the frozen network computes from it: the logit, the feature map of the
\* last convolutional stage, and the derivative of the logit with respect to
\* that feature map.
Logits == (0 - MaxLogit)..MaxLogit

PeakTensor == [c \in Chan |-> [p \in Pos |-> IF p = 1 THEN 1 ELSE 0]]
FlatTensor == [c \in Chan |-> [p \in Pos |-> 1]]
UpGrad     == [c \in Chan |-> [p \in Pos |-> IF c = 1 /\ p = 1 THEN 1 ELSE 0]]

Inputs == [logit : Logits, act : {PeakTensor, FlatTensor}, dlogit : {UpGrad}]
NoInput == [logit |-> 0, act |-> ZeroTensor, dlogit |-> ZeroTensor]

\* The uploads enumerated for the endpoint: one feature map per logit.
UploadInputs == {x \in Inputs : x.act = PeakTensor}

Scale(t, k) == [c \in Chan |-> [p \in Pos |-> k * t[c][p]]]

\* e^n in thousandths, n >= 0
RECURSIVE ExpMilli(_)
ExpMilli(n) == IF n = 0 THEN 1000 ELSE (ExpMilli(n - 1) * 2718) \div 1000

\* torch.sigmoid, in thousandths
Sigmoid(x) ==
    IF x >= 0 THEN (ExpMilli(x) * 1000) \div (ExpMilli(x) + 1000)
    ELSE (1000 * 1000) \div (1000 + ExpMilli(0 - x))

\* is_deepfake = prediction_prob > 0.5
IsDeepfakeAtLeastHalf(prob) == prob >= Half
IsDeepfake(prob) == prob > Half

\* predicted_class = 1 if is_deepfake else 0
PredictedClass(is_deepfake) == IF is_deepfake THEN 1 ELSE 0

\* int(prediction.round().item()): round half to even sends 0.5 to 0
RoundProb(prob) == IF prob > Half THEN 1 ELSE 0

\* autograd: the feature map requires grad when the input or a backbone
\* parameter does; the score when the feature map or a head parameter does.
\* The parameters' flags are written by the constructor (all True) and by
\* startup (all False) only.
FeatureMapRequiresGradInputOnly(input_rg) == input_rg
FeatureMapRequiresGrad(input_rg) == input_rg \/ featuresRG
ScoreRequiresGrad(x_rg) == x_rg \/ classifierRG

\* ---------------------------------------------------------- generate_cam
\* A target_class argument is <<>> for None and <<k>> for the integer k.
Targets == {<<>>} \cup {<<k>> : k \in (0 - 1)..2}

\* if target_class is None: target_class = int(sigmoid(score).round())
TargetClass(target, logit) ==
    IF target = <<>> THEN RoundProb(Sigmoid(logit)) ELSE target[1]

\* output = score if int(target_class) == 1 else -score
OutputSignOnlyZero(target_class) == IF target_class = 0 THEN 0 - 1 ELSE 1
OutputSign(target_class) == IF target_class = 1 THEN 1 ELSE 0 - 1

\* The statement order of generate_cam: forward_with_cam, target choice,
\* backward, read of the two slots and reduction, return.
CamPcAfterReadFirst(pc) ==
    CASE pc = "fwd" -> "target" [] pc = "target" -> "read"
      [] pc = "read" -> "bwd"   [] pc = "bwd" -> "ret"
CamPcAfter(pc) ==
    CASE pc = "fwd" -> "target" [] pc = "target" -> "bwd"
      [] pc = "bwd" -> "read"   [] pc = "read" -> "ret"

Callers == 0..NumReqs

NoFrame ==
    [pc |-> "idle", call |-> 0, input_rg |-> FALSE, target |-> <<>>, x |-> NoInput,
     hook |-> FALSE, score_rg |-> FALSE, cls |-> 0, sign |-> 0, trace |-> <<>>,
     g |-> None, a |-> None, raised |-> FALSE, out |-> NoReduction]

NewFrame(call, input_rg, target, x) ==
    [NoFrame EXCEPT !.pc = "fwd", !.call = call, !.input_rg = input_rg,
                    !.target = target, !.x = x]

\* detect_deepfake is `async def` and calls detection_service.detect(image)
\* directly: the call runs on the event-loop thread and no other coroutine is
\* resumed until it returns.
DetectOffloaded == FALSE
DetectHoldsEventLoop == TRUE

\* Caller k is executing: the direct caller always, a request when it holds
\* the loop thread.
OnCpu(k) == k = 0 \/ (DetectHoldsEventLoop => running = k)

\* score = self.model.forward_with_cam(input_tensor)
CamForward(k) ==
    /\ OnCpu(k)
    /\ cam[k].pc = "fwd"
    /\ LET f    == cam[k]
           x_rg == FeatureMapRequiresGrad(f.input_rg)
       IN  /\ activations' = Captured(f.call, f.x.act)
           /\ cam' = [cam EXCEPT ![k] =
                        [f EXCEPT !.pc = CamPcAfter("fwd"), !.hook = x_rg,
                                  !.score_rg = ScoreRequiresGrad(x_rg),
                                  !.trace = Append(@, "forward")]]
    /\ UNCHANGED <<phase, featuresRG, classifierRG, gradients, nextCall,
                   running, req, results, red>>
    /\ UNCHANGED storeVars
    /\ UNCHANGED taskVars

\* the target class and the scalar to differentiate
CamTarget(k) ==
    /\ OnCpu(k)
    /\ cam[k].pc = "target"
    /\ LET f   == cam[k]
           cls == TargetClass(f.target, f.x.logit)
       IN  cam' = [cam EXCEPT ![k] =
                     [f EXCEPT !.pc = CamPcAfter("target"), !.cls = cls,
                               !.sign = OutputSign(cls)]]
    /\ UNCHANGED <<phase, featuresRG, classifierRG, activations, gradients,
                   nextCall, running, req, results, red>>
    /\ UNCHANGED storeVars
    /\ UNCHANGED taskVars

\* self.model.zero_grad(); output.backward(retain_graph=True).  backward
\* raises RuntimeError when the output does not require grad; otherwise the
\* hook, when registered on this call's feature map, stores its gradient.
CamBackward(k) ==
    /\ OnCpu(k)
    /\ cam[k].pc = "bwd"
    /\ LET f == cam[k]
       IN  IF ~f.score_rg
           THEN /\ cam' = [cam EXCEPT ![k] = [f EXCEPT !.pc = "ret", !.raised = TRUE]]
                /\ UNCHANGED gradients
           ELSE /\ gradients' = IF f.hook
                                THEN Captured(f.call, Scale(f.x.dlogit, f.sign))
                                ELSE gradients
                /\ cam' = [cam EXCEPT ![k] =
                             [f EXCEPT !.pc = CamPcAfter("bwd"),
                                       !.trace = Append(@, "backward")]]
    /\ UNCHANGED <<phase, featuresRG, classifierRG, activations, nextCall,
                   running, req, results, red>>
    /\ UNCHANGED storeVars
    /\ UNCHANGED taskVars

\* gradients = self.model.gradients; activations = self.model.activations;
\* the None check, the reduction and the normalisation
CamRead(k) ==
    /\ OnCpu(k)
    /\ cam[k].pc = "read"
    /\ LET f == cam[k]
       IN  cam' = [cam EXCEPT ![k] =
                     [f EXCEPT !.pc = CamPcAfter("read"),
                               !.g = gradients, !.a = activations,
                               !.out = ReduceCam(gradients, activations,
                                                 IMAGE_SIZE, IMAGE_SIZE),
                               !.trace = Append(@, "read")]]
    /\ UNCHANGED <<phase, featuresRG, classifierRG, activations, gradients,
                   nextCall, running, req, results, red>>
    /\ UNCHANGED storeVars
    /\ UNCHANGED taskVars

\* ------------------------------------------- initialize_model_and_services
Params == 1..NumParams

\* What MODEL_CHECKPOINT_PATH can hold: no file, a file torch.load cannot
\* read, or a state_dict with
\*   prefixed   its keys carry the "module." prefix of a DataParallel model
\*   keys       the parameters of the model it names
\*   bad_shape  those of them whose tensor has another shape than the model's
\*   extra      whether it names something the model does not have
NoStateDict == [prefixed |-> FALSE, keys |-> {}, bad_shape |-> {}, extra |-> FALSE]

Checkpoints ==
    {[kind |-> k, dict |-> NoStateDict] : k \in {"absent", "unreadable"}}
    \cup {[kind |-> "state_dict",
           dict |-> [prefixed |-> pre, keys |-> keys, bad_shape |-> bad, extra |-> extra]] :
             pre \in BOOLEAN, extra \in BOOLEAN,
             keys \in SUBSET Params, bad \in SUBSET Params}

\* A state_dict saved from this model, wrapped or not.
ValidCheckpoint(prefixed) ==
    [kind |-> "state_dict",
     dict |-> [prefixed |-> prefixed, keys |-> Params, bad_shape |-> {}, extra |-> FALSE]]

BootConfigs ==
    {[use_dataparallel |-> dp, checkpoint |-> c] :
        dp \in BOOLEAN,
        c \in {c \in Checkpoints : c.dict.bad_shape \subseteq c.dict.keys}}

\* The shipped USE_DATAPARALLEL with a checkpoint that loads.
PlainBoot == [use_dataparallel |-> TRUE, checkpoint |-> ValidCheckpoint(TRUE)]

\* nn.Module.load_state_dict(dict), strict: every key that names a parameter
\* of the module with the module's shape is copied in place, one after the
\* other; the error for missing, unexpected and mis-shaped keys is raised
\* after the copying.
InPlaceCopy(matching, dict) == matching \ dict.bad_shape

load_state_dict(wrapped, dict) ==
    LET matching   == IF wrapped = dict.prefixed THEN dict.keys ELSE {}
        missing    == Params \ matching
        unexpected == (dict.keys \ matching) # {} \/ dict.extra
    IN  [copied |-> InPlaceCopy(matching, dict),
         raised |-> missing # {} \/ unexpected \/ (matching \cap dict.bad_shape) # {}]

\* requires_grad of the parameters once startup has frozen them
RequiresGradKept == TRUE
RequiresGradFrozen == FALSE

\* initialize_model_and_services under the configuration cfg: the model is
\* built, wrapped if USE_DATAPARALLEL, the checkpoint is loaded if it is
\* there (the wrapper is taken off only after a load that did not raise),
\* the model is put in eval mode and frozen, get_num_parameters is called on
\* it, and the services are created.  DataParallel has no
\* get_num_parameters: on a model still wrapped the call raises
\* AttributeError, which the function logs and re-raises.
Startup(cfg) ==
    /\ phase = "created"
    /\ LET c       == cfg.checkpoint
           tried   == c.kind # "absent"
           loading == IF c.kind = "state_dict"
                      THEN load_state_dict(cfg.use_dataparallel, c.dict)
                      ELSE [copied |-> {}, raised |-> TRUE]
           failed  == tried /\ loading.raised
           wrapped == cfg.use_dataparallel /\ ~(tried /\ ~failed)
       IN  /\ model' = [built |-> TRUE, cfg |-> cfg, wrapped |-> wrapped,
                        weights |-> [p \in Params |->
                                        IF tried /\ p \in loading.copied
                                        THEN "checkpoint" ELSE "baseline"],
                        training |-> FALSE,
                        device |-> "MODEL_DEVICE",
                        log |-> IF ~tried THEN "No custom weights found"
                                ELSE IF failed THEN "Falling back"
                                ELSE "Loaded custom trained weights",
                        services |-> ~wrapped]
           /\ phase' = IF wrapped THEN "failed" ELSE "serving"
    /\ featuresRG' = RequiresGradFrozen
    /\ classifierRG' = RequiresGradFrozen
    /\ UNCHANGED <<activations, gradients, nextCall, cam, running, req, results, red>>
    /\ UNCHANGED storeVars
    /\ UNCHANGED <<sched, sweep>>

\* --------------------------------------- generate_cam called as a library
\* GradCAM(model).generate_cam(input_tensor, target_class) on one model, one
\* call after another, before or after the parameters are frozen.
DirectCall ==
    /\ cam[0].pc \in {"idle", "ret"}
    /\ nextCall <= MaxCalls
    /\ \E input_rg \in BOOLEAN, target \in Targets, x \in Inputs :
         cam' = [cam EXCEPT ![0] = NewFrame(nextCall, input_rg, target, x)]
    /\ nextCall' = nextCall + 1
    /\ UNCHANGED <<phase, featuresRG, classifierRG, activations, gradients,
                   running, req, results, red>>
    /\ UNCHANGED storeVars
    /\ UNCHANGED taskVars

InitCam ==
    /\ phase = "created"
    /\ featuresRG = TRUE /\ classifierRG = TRUE
    /\ activations = None /\ gradients = None
    /\ nextCall = 1
    /\ cam = [k \in Callers |-> NoFrame]
    /\ running = 0
    /\ req = <<>>
    /\ results = <<>>
    /\ InitStore
    /\ InitTasks
    /\ red = [done |-> FALSE, out |-> NoReduction]

NextCam ==
    \/ Startup(PlainBoot)
    \/ DirectCall
    \/ CamForward(0)
    \/ CamTarget(0)
    \/ CamBackward(0)
    \/ CamRead(0)

SpecCam == InitCam /\ [][NextCam]_vars

\* ------------------------------------------------- the detect endpoint
ALLOWED_IMAGE_TYPES == {"image/jpeg", "image/jpg", "image/png", "image/webp"}
ContentTypes == {"image/jpeg", "text/plain", ""}
ImageModes   == {"RGB", "RGBA", "L", "P"}
Uuids        == 1..NumUuids

\* np.array(image).shape[2:] for a PIL image of the given mode; <<>> when the
\* array is two-dimensional (grayscale "L" and palette "P").
ArrayChannels(mode) ==
    CASE mode = "RGB" -> <<3>> [] mode = "RGBA" -> <<4>> [] OTHER -> <<>>

\* cv2.addWeighted(org_img, beta, heatmap, alpha, 0) needs both arrays of the
\* same size and channel count; the colour-mapped heatmap has 3 channels.
BlendSucceeds(mode) == ArrayChannels(mode) = <<3>>

\* label = "AI-generated image" if is_deepfake else "Real"
Label(is_deepfake) == IF is_deepfake THEN "AI-generated image" ELSE "Real"

\* str.lower on the two labels
Lower(label) ==
    CASE label = "AI-generated image" -> "ai-generated image"
      [] label = "Real" -> "real"
      [] OTHER -> label

\* PredictionResult declares four fields with Field(...), all required;
\* detect supplies label and is_deepfake.
PredictionResultRequired == {"label", "is_deepfake", "confidence", "probabilities"}
PredictionResultSuppliedAll == PredictionResultRequired
PredictionResultSupplied == {"label", "is_deepfake"}

\* pydantic validation of PredictionResult(**supplied)
PredictionResultValid == PredictionResultRequired \subseteq PredictionResultSupplied

NoResponse ==
    [success |-> FALSE, label |-> "", is_deepfake |-> FALSE,
     gradcam_image |-> <<>>, description |-> <<>>]

\* A request: what the client sent (ctype, bytes, size, openable, complete,
\* mode, dims), how far the handler got (pc, steps, failed) and what it
\* produced.  `steps` lists the handler's steps in the order they began.
NoRequest ==
    [pc |-> "new", ctype |-> "", bytes |-> 0, size |-> <<>>, openable |-> FALSE,
     complete |-> TRUE, mode |-> "RGB", dims |-> <<0, 0>>, x |-> NoInput,
     steps |-> <<>>, failed |-> "",
     inferred |-> FALSE, prob |-> 0, is_deepfake |-> FALSE, predicted_class |-> 0, label |-> "",
     wrote |-> <<>>, persisted |-> FALSE, url |-> <<>>, status |-> 0, response |-> NoResponse]

\* The size ceiling of validate_image_file, in bytes.
SizeCeiling == MAX_IMAGE_SIZE_MB * 1024 * 1024

\* What the clients and the disk can present to the endpoint:
\*   sizes    payload lengths in bytes
\*   reports  whether UploadFile.size is set (None otherwise)
\*   modes    colour modes of the images
\*   dims     image sizes (width, height) in the header
\*   complete whether the pixel data behind the header can be loaded
\*   writable whether cv2.imwrite manages to write the overlay (it returns
\*            False, without raising, when it does not)
AnyUpload ==
    [sizes |-> {SizeCeiling, SizeCeiling + 1}, reports |-> BOOLEAN,
     modes |-> ImageModes,
     dims |-> {<<16, IMAGE_SIZE>>, <<IMAGE_SIZE, IMAGE_SIZE>>, <<IMAGE_SIZE, 5000>>},
     complete |-> BOOLEAN, writable |-> BOOLEAN]

\* Uploads of well-formed images within the ceiling, on a writable disk.
PlainUpload ==
    [sizes |-> {SizeCeiling}, reports |-> {TRUE},
     modes |-> ImageModes \ {"P"},
     dims |-> {<<IMAGE_SIZE, IMAGE_SIZE>>},
     complete |-> {TRUE}, writable |-> {TRUE}]

\* validate_image_file, first check: the content type is missing or unsupported
ContentTypeRejectedIfUnsupported(content_type) == content_type \notin ALLOWED_IMAGE_TYPES \cup {""}
ContentTypeRejected(content_type) ==
    content_type = "" \/ content_type \notin ALLOWED_IMAGE_TYPES

\* validate_image_file, second check: `file.size and file.size > ceiling`,
\* with file.size None (here <<>>) when the upload reports no size
SizeRejected(size) ==
    size # <<>> /\ size[1] # 0 /\ size[1] > SizeCeiling

\* utils.validate_image_dimensions(image, max_dimension)
validate_image_dimensions(dims, max_dimension) ==
    IF dims[1] > max_dimension \/ dims[2] > max_dimension THEN FALSE
    ELSE IF dims[1] < 32 \/ dims[2] < 32 THEN FALSE
    ELSE TRUE

\* The name of the overlay file, gradcam_<timestamp>_<unique_id>.png: the
\* timestamp is the clock reading of the request (the code formats it to the
\* second) and unique_id the first eight hex digits of a fresh uuid4.
OverlayName(timestamp, unique_id) == <<"gradcam", timestamp, unique_id>>

\* glob("gradcam_*.png")
IsResultFile(name) == name[1] = "gradcam"

\* _generate_gradcam reaches cv2.imwrite only after generate_cam and
\* apply_colormap_on_image have returned.
ReachesImwriteBeforeBlend(raised, mode) == ~raised
ReachesImwrite(raised, mode) == ~raised /\ BlendSucceeds(mode)

\* The class the explanation is targeted at.
GradcamTargetOther(predicted_class) == 1 - predicted_class
GradcamTarget(predicted_class) == predicted_class

\* The value of `running` when a handler step ends the request or suspends.
Release(r) == IF running = r THEN 0 ELSE running

\* POST /detect up to `await file.read()`: validate_image_file rejects a
\* missing or unsupported content type, then a reported size above the
\* ceiling, with 400; otherwise the coroutine suspends in the read.
DetectStart(r, env) ==
    /\ phase = "serving"
    /\ running = 0
    /\ req[r].pc = "new"
    /\ \E ctype \in ContentTypes, bytes \in env.sizes, reports \in env.reports :
         LET size == IF reports THEN <<bytes>> ELSE <<>>
             sent == [req[r] EXCEPT !.ctype = ctype, !.bytes = bytes, !.size = size,
                                    !.steps = <<"validate">>]
         IN  IF ContentTypeRejected(ctype) \/ SizeRejected(size)
             THEN req' = [req EXCEPT ![r] = [sent EXCEPT !.pc = "done", !.status = 400,
                                                         !.failed = "validate"]]
             ELSE req' = [req EXCEPT ![r] = [sent EXCEPT !.pc = "await_read"]]
    /\ UNCHANGED <<phase, featuresRG, classifierRG, activations, gradients,
                   nextCall, cam, running, results, red>>
    /\ UNCHANGED storeVars
    /\ UNCHANGED taskVars

\* The coroutine is resumed with the body (the uploaded bytes are what the
\* client sent: an image of some mode and size whose pixel data is complete
\* or truncated, or bytes Image.open rejects).  Image.open reads the header
\* only: it fails with 400, or detection_service.detect(image) is entered.
DetectResume(r, env) ==
    /\ running = 0
    /\ req[r].pc = "await_read"
    /\ \E openable \in BOOLEAN :
         IF ~openable
         THEN /\ req' = [req EXCEPT ![r] =
                           [@ EXCEPT !.pc = "done", !.status = 400, !.failed = "open",
                                     !.steps = @ \o <<"read", "open">>]]
              /\ UNCHANGED running
         ELSE \E mode \in env.modes, x \in UploadInputs,
                 dims \in env.dims, complete \in env.complete :
              /\ req' = [req EXCEPT ![r] = [@ EXCEPT !.pc = "preprocess",
                                                     !.openable = TRUE,
                                                     !.mode = mode, !.x = x,
                                                     !.dims = dims,
                                                     !.complete = complete,
                                                     !.steps = @ \o <<"read", "open">>]]
              /\ running' = IF DetectHoldsEventLoop THEN r ELSE 0
    /\ UNCHANGED <<phase, featuresRG, classifierRG, activations, gradients,
                   nextCall, cam, results, red>>
    /\ UNCHANGED storeVars
    /\ UNCHANGED taskVars

\* img_tensor = preprocess_image(image).to(self.device): convert('RGB') and
\* the resize load the pixel data, which raises on a truncated file; detect
\* re-raises as RuntimeError and the endpoint answers 500.
Preprocess(r) ==
    /\ OnCpu(r)
    /\ req[r].pc = "preprocess"
    /\ IF req[r].complete
       THEN /\ req' = [req EXCEPT ![r] = [@ EXCEPT !.pc = "infer",
                                                   !.steps = @ \o <<"preprocess">>]]
            /\ UNCHANGED running
       ELSE /\ req' = [req EXCEPT ![r] = [@ EXCEPT !.pc = "done", !.status = 500,
                                                   !.failed = "preprocess",
                                                   !.steps = @ \o <<"preprocess">>]]
            /\ running' = Release(r)
    /\ UNCHANGED <<phase, featuresRG, classifierRG, activations, gradients,
                   nextCall, cam, results, red>>
    /\ UNCHANGED storeVars
    /\ UNCHANGED taskVars

\* is_deepfake, predicted_class = self._run_inference(img_tensor)
RunInference(r) ==
    /\ OnCpu(r)
    /\ req[r].pc = "infer"
    /\ LET prob == Sigmoid(req[r].x.logit)
       IN  req' = [req EXCEPT ![r] =
                     [@ EXCEPT !.pc = "gradcam", !.inferred = TRUE, !.prob = prob,
                               !.steps = @ \o <<"infer">>,
                               !.is_deepfake = IsDeepfake(prob),
                               !.predicted_class = PredictedClass(IsDeepfake(prob))]]
    /\ UNCHANGED <<phase, featuresRG, classifierRG, activations, gradients,
                   nextCall, cam, running, results, red>>
    /\ UNCHANGED storeVars
    /\ UNCHANGED taskVars

\* _generate_gradcam: img_tensor.requires_grad = True and the call of
\* generate_cam(img_tensor, target_class=predicted_class)
GenerateGradcamCall(r) ==
    /\ OnCpu(r)
    /\ req[r].pc = "gradcam"
    /\ cam' = [cam EXCEPT ![r] =
                 NewFrame(nextCall, TRUE, <<GradcamTarget(req[r].predicted_class)>>,
                          req[r].x)]
    /\ nextCall' = nextCall + 1
    /\ req' = [req EXCEPT ![r] = [@ EXCEPT !.pc = "in_cam",
                                           !.steps = @ \o <<"gradcam">>]]
    /\ UNCHANGED <<phase, featuresRG, classifierRG, activations, gradients,
                   running, results, red>>
    /\ UNCHANGED storeVars
    /\ UNCHANGED taskVars

\* _generate_gradcam after generate_cam returned: the overlay is blended and
\* written under gradcam_<timestamp>_<uuid8>.png, and its URL is returned
\* whatever cv2.imwrite returned; an exception of generate_cam or of the
\* blend leaves detect as RuntimeError, answered with 500.
GenerateGradcamFinish(r, env) ==
    /\ OnCpu(r)
    /\ req[r].pc = "in_cam"
    /\ cam[r].pc = "ret"
    /\ \E u \in Uuids, written \in env.writable :
         LET raised  == cam[r].raised
             blended == BlendSucceeds(req[r].mode)
             imwrite == ReachesImwrite(raised, req[r].mode)
             after   == [req[r] EXCEPT
                           !.steps = @ \o (IF raised THEN <<>> ELSE <<"blend">>)
                                       \o (IF imwrite THEN <<"imwrite">> ELSE <<>>),
                           !.wrote = IF imwrite THEN <<OverlayName(clock, u)>> ELSE <<>>,
                           !.persisted = imwrite /\ written]
         IN  /\ results' = IF imwrite /\ written
                           THEN Put(results, OverlayName(clock, u), clock)
                           ELSE results
             /\ IF raised \/ ~blended
                THEN /\ req' = [req EXCEPT ![r] =
                                  [after EXCEPT !.pc = "done", !.status = 500,
                                                !.failed = IF raised THEN "gradcam"
                                                           ELSE "blend"]]
                     /\ running' = Release(r)
                ELSE /\ req' = [req EXCEPT ![r] =
                                  [after EXCEPT !.pc = "respond",
                                                !.url = <<"/results/">> \o OverlayName(clock, u)]]
                     /\ UNCHANGED running
    /\ UNCHANGED <<phase, featuresRG, classifierRG, activations, gradients,
                   nextCall, cam, red>>
    /\ UNCHANGED storeVars
    /\ UNCHANGED taskVars

\* The session ids the detect path passes to add_session for request r:
\* neither the endpoint nor DetectionService.detect calls add_session, and
\* the response carries no session id.
SessionsAddedByDetectPerRequest(r) == {r}
SessionsAddedByDetect(r) == {}

\* detect lines 84-110: the label and the DetectionResponse; the pydantic
\* ValidationError of PredictionResult is re-raised as RuntimeError and
\* answered with 500.
BuildResponse(r) ==
    /\ OnCpu(r)
    /\ req[r].pc = "respond"
    /\ LET label == Label(req[r].is_deepfake)
       IN  IF PredictionResultValid
           THEN req' = [req EXCEPT ![r] =
                          [@ EXCEPT !.pc = "done", !.label = label, !.status = 200,
                                    !.steps = @ \o <<"respond">>,
                                    !.response =
                                        [success |-> TRUE, label |-> label,
                                         is_deepfake |-> req[r].is_deepfake,
                                         gradcam_image |-> req[r].url,
                                         description |->
                                             <<"classifying this image as ",
                                               Lower(label)>>]]]
           ELSE req' = [req EXCEPT ![r] =
                          [@ EXCEPT !.pc = "done", !.label = label, !.status = 500,
                                    !.steps = @ \o <<"respond">>,
                                    !.failed = "respond"]]
    /\ running' = Release(r)
    /\ UNCHANGED <<phase, featuresRG, classifierRG, activations, gradients,
                   nextCall, cam, results, red>>
    /\ detection_cache' =
           [s \in DOMAIN detection_cache \cup SessionsAddedByDetect(r) |->
               IF s \in SessionsAddedByDetect(r) THEN [timestamp |-> clock]
               ELSE detection_cache[s]]
    /\ registered' =
           [s \in DOMAIN registered \cup SessionsAddedByDetect(r) |->
               IF s \in SessionsAddedByDetect(r) THEN clock ELSE registered[s]]
    /\ UNCHANGED <<clock, nextCleanup, last>>
    /\ UNCHANGED taskVars

Init ==
    /\ phase = "created"
    /\ featuresRG = TRUE /\ classifierRG = TRUE
    /\ activations = None /\ gradients = None
    /\ nextCall = 1
    /\ cam = [k \in Callers |-> NoFrame]
    /\ running = 0
    /\ req = [r \in Reqs |-> NoRequest]
    /\ results = <<>>
    /\ InitStore
    /\ InitTasks
    /\ red = [done |-> FALSE, out |-> NoReduction]

Next ==
    \/ Startup(PlainBoot)
    \/ \E r \in Reqs : DetectStart(r, PlainUpload)
    \/ \E r \in Reqs : DetectResume(r, PlainUpload)
    \/ \E r \in Reqs : Preprocess(r)
    \/ \E r \in Reqs : RunInference(r)
    \/ \E r \in Reqs : GenerateGradcamCall(r)
    \/ \E r \in Reqs : CamForward(r)
    \/ \E r \in Reqs : CamTarget(r)
    \/ \E r \in Reqs : CamBackward(r)
    \/ \E r \in Reqs : CamRead(r)
    \/ \E r \in Reqs : GenerateGradcamFinish(r, PlainUpload)
    \/ \E r \in Reqs : BuildResponse(r)

Spec == Init /\ [][Next]_vars

\* ------------------------------------------- one request, any upload
\* The endpoint serving a single request, over everything a client can
\* upload and with a disk that may refuse the overlay.
NextDetect ==
    \/ Startup(PlainBoot)
    \/ DetectStart(1, AnyUpload)
    \/ DetectResume(1, AnyUpload)
    \/ Preprocess(1)
    \/ RunInference(1)
    \/ GenerateGradcamCall(1)
    \/ CamForward(1)
    \/ CamTarget(1)
    \/ CamBackward(1)
    \/ CamRead(1)
    \/ GenerateGradcamFinish(1, AnyUpload)
    \/ BuildResponse(1)

SpecDetect == Init /\ [][NextDetect]_vars

\* Startup under any configuration and checkpoint, then detect requests.
NextBoot ==
    \/ \E cfg \in BootConfigs : Startup(cfg)
    \/ DetectStart(1, PlainUpload)
    \/ DetectResume(1, PlainUpload)
    \/ Preprocess(1)
    \/ RunInference(1)
    \/ GenerateGradcamCall(1)
    \/ CamForward(1)
    \/ CamTarget(1)
    \/ CamBackward(1)
    \/ CamRead(1)
    \/ GenerateGradcamFinish(1, PlainUpload)
    \/ BuildResponse(1)

SpecBoot == Init /\ [][NextBoot]_vars

\* ------------------------------------------------- the session cache
SessionIds == 1..NumSessions

\* The clock advances in steps of a third of the retention window.
TickMinutes == MAX_SESSION_AGE_MINUTES \div 3

\* get_session: detection_cache.get(session_id), <<>> for None
get_session_or_blank(session_id) ==
    IF session_id \in DOMAIN detection_cache THEN <<detection_cache[session_id]>>
    ELSE <<[timestamp |-> clock]>>
get_session(session_id) ==
    IF session_id \in DOMAIN detection_cache THEN <<detection_cache[session_id]>>
    ELSE <<>>

\* add_session(session_id, ...): the entry is stored with datetime.now()
AddSession(s) ==
    /\ detection_cache' = Put(detection_cache, s, [timestamp |-> clock])
    /\ registered' = Put(registered, s, clock)
    /\ UNCHANGED <<clock, nextCleanup, last>>
    /\ UNCHANGED <<phase, featuresRG, classifierRG, activations, gradients,
                   nextCall, cam, running, req, results, red>>
    /\ UNCHANGED taskVars

\* remove_session(session_id)
RemoveSession(s) ==
    /\ s \in DOMAIN detection_cache
    /\ detection_cache' = Without(detection_cache, {s})
    /\ UNCHANGED <<clock, nextCleanup, registered, last>>
    /\ UNCHANGED <<phase, featuresRG, classifierRG, activations, gradients,
                   nextCall, cam, running, req, results, red>>
    /\ UNCHANGED taskVars

\* The sessions cleanup_old_sessions removes in its first loop:
\* timestamp < now - MAX_SESSION_AGE_MINUTES
ExpiredSessions(cache, now) ==
    {s \in DOMAIN cache : cache[s].timestamp < now - MAX_SESSION_AGE_MINUTES}

\* The number of sessions the second loop removes
ExcessSessions(cache, max_cache_size) ==
    IF Cardinality(DOMAIN cache) > max_cache_size
    THEN Cardinality(DOMAIN cache) - max_cache_size ELSE 0

\* The order sorted(..., key=lambda x: x[1][3]) puts two timestamps in
NewestFirst(timestamp1, timestamp2) == timestamp1 >= timestamp2
OldestFirst(timestamp1, timestamp2) == timestamp1 <= timestamp2

\* sorted(detection_cache.items(), key=timestamp): the lists of the session
\* ids in key order (sessions of equal timestamp in either order)
SortedSessions(cache) ==
    LET n == Cardinality(DOMAIN cache)
    IN  {q \in [1..n -> DOMAIN cache] :
            /\ \A i, j \in 1..n : i # j => q[i] # q[j]
            /\ \A i, j \in 1..n :
                 i < j => OldestFirst(cache[q[i]].timestamp, cache[q[j]].timestamp)}

\* cleanup_old_sessions() at time `now` with the module's MAX_CACHE_SIZE
\* set to max_cache_size: the caches it can leave and the count it returns.
\* Expired sessions go first, then the first excess_count of the sorted rest.
cleanup_old_sessions(cache, now, max_cache_size) ==
    LET sessions_to_remove == ExpiredSessions(cache, now)
        kept == Without(cache, sessions_to_remove)
        excess_count == ExcessSessions(kept, max_cache_size)
    IN  {[cache |-> Without(kept, {sorted_sessions[i] : i \in 1..excess_count}),
          ret |-> Cardinality(sessions_to_remove) + excess_count] :
             sorted_sessions \in SortedSessions(kept)}

\* _periodic_cache_cleanup waking from asyncio.sleep and running
\* cleanup_old_sessions, then sleeping again.
PeriodicCacheCleanup ==
    /\ clock >= nextCleanup
    /\ \E out \in cleanup_old_sessions(detection_cache, clock, MAX_CACHE_SIZE) :
         /\ detection_cache' = out.cache
         /\ last' = [op |-> "cleanup_old_sessions", arg |-> <<>>, ret |-> out.ret]
    /\ nextCleanup' = clock + CACHE_CLEANUP_INTERVAL_MINUTES
    /\ UNCHANGED <<clock, registered>>
    /\ UNCHANGED <<phase, featuresRG, classifierRG, activations, gradients,
                   nextCall, cam, running, req, results, red>>
    /\ UNCHANGED taskVars

\* GET /report/{session_id}: 404 when get_session returns None or a file of
\* the session is gone, 500 when the PDF generation raises, else the PDF.
\* The cache is only read.
GeneratePdfReport(s) ==
    /\ LET session_data == get_session(s)
           answered(status) ==
               last' = [op |-> "report", arg |-> <<s>>,
                        known |-> s \in DOMAIN registered,
                        expired |-> /\ s \in DOMAIN registered
                                    /\ clock - registered[s] > MAX_SESSION_AGE_MINUTES,
                        found |-> session_data # <<>>,
                        status |-> status]
       IN  IF session_data = <<>>
           THEN answered(404)
           ELSE \E original_exists, gradcam_exists, pdf_ok \in BOOLEAN :
                    IF ~original_exists \/ ~gradcam_exists THEN answered(404)
                    ELSE IF ~pdf_ok THEN answered(500)
                    ELSE answered(200)
    /\ UNCHANGED <<clock, detection_cache, nextCleanup, registered>>
    /\ UNCHANGED <<phase, featuresRG, classifierRG, activations, gradients,
                   nextCall, cam, running, req, results, red>>
    /\ UNCHANGED taskVars

\* Time passes; the cleanup task runs as soon as its sleep is over.
Tick ==
    /\ clock < MaxClock
    /\ clock < nextCleanup
    /\ clock' = clock + TickMinutes
    /\ UNCHANGED <<detection_cache, nextCleanup, registered, last>>
    /\ UNCHANGED <<phase, featuresRG, classifierRG, activations, gradients,
                   nextCall, cam, running, req, results, red>>
    /\ UNCHANGED taskVars

NextSession ==
    \/ \E s \in SessionIds : AddSession(s)
    \/ \E s \in SessionIds : RemoveSession(s)
    \/ \E s \in SessionIds : GeneratePdfReport(s)
    \/ PeriodicCacheCleanup
    \/ Tick

SpecSession == Init /\ [][NextSession]_vars

\* The running service as its routes and background task drive it: detect
\* requests, report requests, the periodic cache cleanup, and time.
NextService ==
    \/ NextDetect
    \/ \E s \in SessionIds : GeneratePdfReport(s)
    \/ PeriodicCacheCleanup
    \/ Tick

SpecService == Init /\ [][NextService]_vars

\* ------------------------------------------- cleanup_old_sessions alone
\* Ages in minutes of the enumerated sessions: new, within the window,
\* exactly at its end, and beyond it (twice).
SessionAges ==
    {0, MAX_SESSION_AGE_MINUTES - TickMinutes, MAX_SESSION_AGE_MINUTES,
     MAX_SESSION_AGE_MINUTES + TickMinutes, MAX_SESSION_AGE_MINUTES + 2 * TickMinutes}

Caches(now) ==
    UNION {[ids -> {[timestamp |-> now - a] : a \in SessionAges}] :
               ids \in SUBSET SessionIds}

\* Values of the module's MAX_CACHE_SIZE the function is run with.
CacheSizes == (0..NumSessions) \cup {MAX_CACHE_SIZE}

\* cleanup_old_sessions() called on the cache as it stands
CleanupOldSessionsCall(max_cache_size) ==
    /\ \E out \in cleanup_old_sessions(detection_cache, clock, max_cache_size) :
         /\ detection_cache' = out.cache
         /\ last' = [op |-> "cleanup_old_sessions", arg |-> <<max_cache_size>>,
                     at |-> clock, before |-> detection_cache, ret |-> out.ret]
    /\ UNCHANGED <<clock, nextCleanup, registered>>
    /\ UNCHANGED <<phase, featuresRG, classifierRG, activations, gradients,
                   nextCall, cam, running, req, results, red>>
    /\ UNCHANGED taskVars

InitCache ==
    /\ phase = "created"
    /\ featuresRG = TRUE /\ classifierRG = TRUE
    /\ activations = None /\ gradients = None
    /\ nextCall = 1
    /\ cam = <<>>
    /\ running = 0
    /\ req = <<>>
    /\ red = [done |-> FALSE, out |-> NoReduction]
    /\ results = <<>>
    /\ clock = MaxClock
    /\ detection_cache \in Caches(clock)
    /\ nextCleanup = clock + CACHE_CLEANUP_INTERVAL_MINUTES
    /\ registered = <<>>
    /\ last = NoCall
    /\ InitTasks

NextCache == \E max_cache_size \in CacheSizes : CleanupOldSessionsCall(max_cache_size)

SpecCache == InitCache /\ [][NextCache]_vars

\* ------------------------------------------------- retention of results
\* Files a results directory is enumerated over: overlays gradcam_<i>.png and
\* one file the glob does not match.
OverlayNames == {OverlayName(0, i) : i \in 1..MaxFiles}
OtherName == <<"upload", 1>>

\* Ages in hours of the enumerated files: fresh, exactly at the default
\* retention limit, just above it, and old.
FileAgesHours == {1, RESULTS_CLEANUP_HOURS, RESULTS_CLEANUP_HOURS + 1, MaxAgeHours}

\* The directories with the given names present.
Directories(now) ==
    UNION {[names -> {now - 60 * h : h \in FileAgesHours}] :
               names \in SUBSET (OverlayNames \cup {OtherName})}

\* list(settings.RESULTS_DIR.glob("gradcam_*.png"))
GlobResults(dir) == {n \in DOMAIN dir : IsResultFile(n)}

\* file_age > timedelta(hours=max_age_hours), ages in minutes
IsOlderOrEqual(file_age, max_age_hours) == file_age >= 60 * max_age_hours
IsOlder(file_age, max_age_hours) == file_age > 60 * max_age_hours

\* The unlink loop over the selected files: all of them, or (a loop that
\* stops after its first unlink) one of them
UnlinkFirst(dir, names) ==
    IF names = {} THEN dir ELSE Without(dir, {CHOOSE n \in names : TRUE})
UnlinkAll(dir, names) == Without(dir, names)

\* What a call is preceded by: <<r>> when the call before it was the same
\* operation with the same argument at the same clock and returned r, with
\* no write in between; <<>> otherwise.
PriorRun(op, arg, now) ==
    IF last.op = op /\ last.arg = arg /\ last.at = now THEN <<last.ret>> ELSE <<>>

\* Arguments of the two operations; <<>> is None.
HoursArgs == {<<>>, <<0>>, <<RESULTS_CLEANUP_HOURS>>, <<MaxAgeHours>>}
CountArgs == {<<>>} \cup {<<m>> : m \in 0..MaxFiles}

\* cleanup_old_files(max_age_hours): every globbed file whose age exceeds the
\* limit is unlinked and counted.
CleanupOldFiles(arg) ==
    /\ LET max_age_hours == IF arg = <<>> THEN RESULTS_CLEANUP_HOURS ELSE arg[1]
           current_time == clock
           old == {n \in GlobResults(results) :
                       IsOlder(current_time - results[n], max_age_hours)}
       IN  /\ results' = UnlinkAll(results, old)
           /\ last' = [op |-> "cleanup_old_files", arg |-> <<max_age_hours>>,
                       at |-> current_time, before |-> results,
                       prior |-> PriorRun("cleanup_old_files", <<max_age_hours>>,
                                          current_time),
                       ret |-> Cardinality(old)]
    /\ UNCHANGED <<clock, detection_cache, nextCleanup, registered>>
    /\ UNCHANGED <<phase, featuresRG, classifierRG, activations, gradients,
                   nextCall, cam, running, req, red>>
    /\ UNCHANGED taskVars

\* The order sorted(..., key=st_mtime) puts two modification times in
InReverseKeyOrder(mtime1, mtime2) == mtime1 >= mtime2
InKeyOrder(mtime1, mtime2) == mtime1 <= mtime2

\* sorted(glob(...), key=lambda p: p.stat().st_mtime): the lists of the
\* globbed files in key order.  The sort is stable and the glob yields the
\* files in any order, so files of equal time come in any order.
SortedResults(dir) ==
    LET files == GlobResults(dir)
        n == Cardinality(files)
    IN  {q \in [1..n -> files] :
            /\ \A i, j \in 1..n : i # j => q[i] # q[j]
            /\ \A i, j \in 1..n : i < j => InKeyOrder(dir[q[i]], dir[q[j]])}

\* cleanup_by_count(max_files): nothing when the count is within the limit,
\* else result_files[:files_to_delete] is unlinked and counted.
CleanupByCount(arg) ==
    /\ LET max_files == IF arg = <<>> THEN RESULTS_MAX_FILES ELSE arg[1]
       IN  \E result_files \in SortedResults(results) :
             LET files_to_delete == Len(result_files) - max_files
                 deleted == IF files_to_delete <= 0 THEN {}
                            ELSE {result_files[i] :
                                      i \in 1..Min2(files_to_delete, Len(result_files))}
             IN  /\ results' = UnlinkAll(results, deleted)
                 /\ last' = [op |-> "cleanup_by_count", arg |-> <<max_files>>,
                             at |-> clock, before |-> results,
                             prior |-> PriorRun("cleanup_by_count", <<max_files>>,
                                                clock),
                             ret |-> Cardinality(deleted)]
    /\ UNCHANGED <<clock, detection_cache, nextCleanup, registered>>
    /\ UNCHANGED <<phase, featuresRG, classifierRG, activations, gradients,
                   nextCall, cam, running, req, red>>
    /\ UNCHANGED taskVars

\* A results directory left by earlier runs, MaxAgeHours after its oldest
\* file was written.
InitFiles ==
    /\ phase = "created"
    /\ featuresRG = TRUE /\ classifierRG = TRUE
    /\ activations = None /\ gradients = None
    /\ nextCall = 1
    /\ cam = <<>>
    /\ running = 0
    /\ req = <<>>
    /\ red = [done |-> FALSE, out |-> NoReduction]
    /\ clock = 60 * MaxAgeHours
    /\ results \in Directories(clock)
    /\ detection_cache = <<>>
    /\ nextCleanup = CACHE_CLEANUP_INTERVAL_MINUTES
    /\ registered = <<>>
    /\ last = NoCall
    /\ InitTasks

NextFiles ==
    \/ \E arg \in HoursArgs : CleanupOldFiles(arg)
    \/ \E arg \in CountArgs : CleanupByCount(arg)

SpecFiles == InitFiles /\ [][NextFiles]_vars

\* --------------------------------------------- the daily cleanup scheduler
\* timedelta(days=1), in minutes
DayMinutes == 1440

\* lifespan startup after initialize_model_and_services: the scheduler task
\* is created with a fresh stop event.
LifespanStart ==
    /\ phase = "serving"
    /\ sched.pc = "none"
    /\ sched' = [sched EXCEPT !.pc = "loop"]
    /\ UNCHANGED <<model, sweep>>
    /\ UNCHANGED <<phase, featuresRG, classifierRG, activations, gradients,
                   nextCall, cam, running, req, results, red>>
    /\ UNCHANGED storeVars

\* while not stop_event.is_set(): the wait until midnight begins, or the
\* loop is left.
SchedCheck ==
    /\ sched.pc = "loop"
    /\ sched' = [sched EXCEPT !.pc = IF sched.stop THEN "done" ELSE "wait"]
    /\ UNCHANGED <<model, sweep>>
    /\ UNCHANGED <<phase, featuresRG, classifierRG, activations, gradients,
                   nextCall, cam, running, req, results, red>>
    /\ UNCHANGED storeVars

\* wait_for(stop_event.wait(), ...) returns because the event was set: break
SchedWake ==
    /\ sched.pc = "wait"
    /\ sched.stop
    /\ sched' = [sched EXCEPT !.pc = "done"]
    /\ UNCHANGED <<model, sweep>>
    /\ UNCHANGED <<phase, featuresRG, classifierRG, activations, gradients,
                   nextCall, cam, running, req, results, red>>
    /\ UNCHANGED storeVars

\* Midnight: the timer of wait_for fires while the event is not set.  The
\* coroutine is made ready with TimeoutError and resumes in a later step.
SchedTimeout ==
    /\ sched.pc = "wait"
    /\ ~sched.stop
    /\ sched.runs < MaxSweeps
    /\ sched' = [sched EXCEPT !.pc = "timed_out"]
    /\ clock' = clock + DayMinutes
    /\ UNCHANGED <<detection_cache, nextCleanup, registered, last>>
    /\ UNCHANGED <<model, sweep>>
    /\ UNCHANGED <<phase, featuresRG, classifierRG, activations, gradients,
                   nextCall, cam, running, req, results, red>>

\* What the thread does next: the loop over result_files goes on, or
\* cleanup_old_files returns.
SweepNext(remaining) == IF remaining = {} THEN "finished" ELSE "scan"

\* except asyncio.TimeoutError: pass, then asyncio.to_thread(cleanup_old_files):
\* the thread takes current_time and lists the directory.  The event is not
\* looked at again before the call.
SchedStartCleanup ==
    /\ sched.pc = "timed_out"
    /\ sched' = [sched EXCEPT !.pc = "cleaning", !.runs = @ + 1]
    /\ sweep' = [pc |-> SweepNext(GlobResults(results)), now |-> clock,
                 remaining |-> GlobResults(results), cur |-> <<>>,
                 deleted |-> 0, failed |-> FALSE]
    /\ UNCHANGED model
    /\ UNCHANGED <<phase, featuresRG, classifierRG, activations, gradients,
                   nextCall, cam, running, req, results, red>>
    /\ UNCHANGED storeVars

\* file_path.stat() of the next listed file and the age test: a file that is
\* gone raises FileNotFoundError, which cleanup_old_files turns into
\* RuntimeError.
SweepStat ==
    /\ sweep.pc = "scan"
    /\ \E f \in sweep.remaining :
         IF f \notin DOMAIN results
         THEN sweep' = [sweep EXCEPT !.pc = "finished", !.failed = TRUE]
         ELSE IF IsOlder(sweep.now - results[f], RESULTS_CLEANUP_HOURS)
         THEN sweep' = [sweep EXCEPT !.pc = "unlink", !.cur = <<f>>]
         ELSE sweep' = [sweep EXCEPT !.pc = SweepNext(sweep.remaining \ {f}),
                                     !.remaining = @ \ {f}]
    /\ UNCHANGED <<model, sched>>
    /\ UNCHANGED <<phase, featuresRG, classifierRG, activations, gradients,
                   nextCall, cam, running, req, results, red>>
    /\ UNCHANGED storeVars

\* file_path.unlink() of the file found old
SweepUnlink ==
    /\ sweep.pc = "unlink"
    /\ LET f == sweep.cur[1]
       IN  IF f \notin DOMAIN results
           THEN /\ sweep' = [sweep EXCEPT !.pc = "finished", !.failed = TRUE,
                                          !.cur = <<>>]
                /\ UNCHANGED results
           ELSE /\ results' = Without(results, {f})
                /\ sweep' = [sweep EXCEPT !.pc = SweepNext(sweep.remaining \ {f}),
                                          !.remaining = @ \ {f}, !.cur = <<>>,
                                          !.deleted = @ + 1]
    /\ UNCHANGED <<model, sched>>
    /\ UNCHANGED <<phase, featuresRG, classifierRG, activations, gradients,
                   nextCall, cam, running, req, red>>
    /\ UNCHANGED storeVars

\* await asyncio.to_thread(...) completes: the count or the exception is
\* logged and the loop goes round.
SchedCleanupDone ==
    /\ sched.pc = "cleaning"
    /\ sweep.pc = "finished"
    /\ sched' = [sched EXCEPT !.pc = "loop"]
    /\ sweep' = [sweep EXCEPT !.pc = "idle"]
    /\ UNCHANGED model
    /\ UNCHANGED <<phase, featuresRG, classifierRG, activations, gradients,
                   nextCall, cam, running, req, results, red>>
    /\ UNCHANGED storeVars

\* lifespan shutdown, main.py:117: get_storage_stats lists the directory
ShutdownBegin ==
    /\ sched.pc # "none"
    /\ sched.shutdown = "no"
    /\ sched' = [sched EXCEPT !.shutdown = "stats", !.listed = GlobResults(results)]
    /\ UNCHANGED <<model, sweep>>
    /\ UNCHANGED <<phase, featuresRG, classifierRG, activations, gradients,
                   nextCall, cam, running, req, results, red>>
    /\ UNCHANGED storeVars

\* get_storage_stats stats the listed files, then lifespan sets the stop
\* event and waits for the task (main.py:124-132).  A listed file that is
\* gone raises FileNotFoundError: the except of the shutdown block logs it
\* and the rest of the block, the stop of the scheduler included, is skipped.
ShutdownStop ==
    /\ sched.shutdown = "stats"
    /\ IF sched.listed \subseteq DOMAIN results
       THEN sched' = [sched EXCEPT !.shutdown = "waiting", !.stop = TRUE, !.listed = {}]
       ELSE sched' = [sched EXCEPT !.shutdown = "aborted", !.listed = {}]
    /\ UNCHANGED <<model, sweep>>
    /\ UNCHANGED <<phase, featuresRG, classifierRG, activations, gradients,
                   nextCall, cam, running, req, results, red>>
    /\ UNCHANGED storeVars

\* wait_for(cleanup_task, timeout=5.0) returns: the task has finished
ShutdownJoin ==
    /\ sched.shutdown = "waiting"
    /\ sched.pc = "done"
    /\ sched' = [sched EXCEPT !.shutdown = "ended"]
    /\ UNCHANGED <<model, sweep>>
    /\ UNCHANGED <<phase, featuresRG, classifierRG, activations, gradients,
                   nextCall, cam, running, req, results, red>>
    /\ UNCHANGED storeVars

\* The five seconds pass with the task unfinished: it is cancelled at its
\* await (CancelledError is not caught by `except Exception`) and awaited.
\* A cleanup in the worker thread runs on.
ShutdownTimeout ==
    /\ sched.shutdown = "waiting"
    /\ sched.pc # "done"
    /\ sched' = [sched EXCEPT !.shutdown = "ended", !.pc = "cancelled"]
    /\ UNCHANGED <<model, sweep>>
    /\ UNCHANGED <<phase, featuresRG, classifierRG, activations, gradients,
                   nextCall, cam, running, req, results, red>>
    /\ UNCHANGED storeVars

\* A detect request writing its overlay (cv2.imwrite) while the service runs
ImwriteOverlay(unique_id) ==
    /\ phase = "serving"
    /\ results' = Put(results, OverlayName(clock, unique_id), clock)
    /\ UNCHANGED <<phase, featuresRG, classifierRG, activations, gradients,
                   nextCall, cam, running, req, red>>
    /\ UNCHANGED storeVars
    /\ UNCHANGED taskVars

\* Results directories the scheduler is started on
SchedulerDirectories(now) ==
    {d \in Directories(now) : DOMAIN d \subseteq {OverlayName(0, 1), OverlayName(0, 2)}}

InitScheduler ==
    /\ phase = "created"
    /\ featuresRG = TRUE /\ classifierRG = TRUE
    /\ activations = None /\ gradients = None
    /\ nextCall = 1
    /\ cam = <<>>
    /\ running = 0
    /\ req = <<>>
    /\ red = [done |-> FALSE, out |-> NoReduction]
    /\ clock = 60 * MaxAgeHours
    /\ results \in SchedulerDirectories(clock)
    /\ detection_cache = <<>>
    /\ nextCleanup = CACHE_CLEANUP_INTERVAL_MINUTES
    /\ registered = <<>>
    /\ last = NoCall
    /\ InitTasks

SchedulerStep ==
    \/ SchedCheck
    \/ SchedWake
    \/ SchedStartCleanup
    \/ SchedCleanupDone

SweepStep ==
    \/ SweepStat
    \/ SweepUnlink

ShutdownStep ==
    \/ ShutdownStop
    \/ ShutdownJoin
    \/ ShutdownTimeout

NextScheduler ==
    \/ Startup(PlainBoot)
    \/ LifespanStart
    \/ SchedTimeout
    \/ SchedulerStep
    \/ SweepStep
    \/ ShutdownBegin
    \/ ShutdownStep
    \/ ImwriteOverlay(1)
    \/ CleanupOldFiles(<<>>)

SpecScheduler == InitScheduler /\ [][NextScheduler]_vars

\* The event loop runs every ready coroutine and the worker thread runs on;
\* a shutdown that has begun goes on.  Midnight and the shutdown itself need
\* not come.
SpecSchedulerFair ==
    /\ SpecScheduler
    /\ WF_vars(SchedulerStep)
    /\ WF_vars(SweepStep)
    /\ WF_vars(ShutdownStep)

\* ------------------------------------------- the reduction taken alone
\* generate_cam lines 91-117 as a function of the two slots it reads and of
\* the input tensor's spatial size.
SlotValues(T) == {None} \cup {Captured(1, t) : t \in T}

InitReduce ==
    /\ phase = "created"
    /\ featuresRG = TRUE /\ classifierRG = TRUE
    /\ activations \in SlotValues(ActTensors)
    /\ gradients \in SlotValues(GradTensors)
    /\ nextCall = 1
    /\ cam = <<>>
    /\ running = 0
    /\ req = <<>>
    /\ results = <<>>
    /\ InitStore
    /\ InitTasks
    /\ red = [done |-> FALSE, out |-> NoReduction]

\* gradients = self.model.gradients; activations = self.model.activations; reduce
ReadAndReduce ==
    /\ ~red.done
    /\ red' = [done |-> TRUE,
               out |-> ReduceCam(gradients, activations, IMAGE_SIZE, IMAGE_SIZE)]
    /\ UNCHANGED <<phase, featuresRG, classifierRG, activations, gradients,
                   nextCall, cam, running, req, results>>
    /\ UNCHANGED storeVars
    /\ UNCHANGED taskVars

NextReduce == ReadAndReduce
SpecReduce == InitReduce /\ [][NextReduce]_vars

\* ================================================================ claims
\* A fraction <<num, den>> lies in [0, 1].
InUnit(f) == f[2] > 0 /\ 0 <= f[1] /\ f[1] <= f[2]
IsZeroMap(m) == DOMAIN m.nz = {}
AllInUnit(m) == \A i \in DOMAIN m.nz : InUnit(m.nz[i])

HasStep(f, step) == \E i \in DOMAIN f.trace : f.trace[i] = step
IsPrefix(s, t) == Len(s) <= Len(t) /\ \A i \in DOMAIN s : s[i] = t[i]

\* Caller k is between its forward_with_cam and its read of the two slots.
InCapture(k) == cam[k].pc \in {"target", "bwd", "read"}

\* C1: the capture sequences of the requests served by the one shared model
\* are serialized.  At most one request is between its forward_with_cam and
\* its read of the slots; while it is, the activation slot holds its own
\* capture; when it is about to read, the gradient slot holds the gradient of
\* its own backward pass; and the pair it has read is its own.
C1_CaptureSerialized ==
    /\ \A j, k \in Reqs : (InCapture(j) /\ InCapture(k)) => j = k
    /\ \A k \in Reqs : InCapture(k) => activations.call = cam[k].call
    /\ \A k \in Reqs :
         (cam[k].pc = "read" /\ HasStep(cam[k], "backward")) => gradients.call = cam[k].call
    /\ \A k \in Reqs :
         HasStep(cam[k], "read") =>
             /\ cam[k].g.call = cam[k].call
             /\ cam[k].a.call = cam[k].call
             /\ cam[k].a.data = cam[k].x.act
             /\ cam[k].g.data = Scale(cam[k].x.dlogit, cam[k].sign)

\* A request is about to read its pair while another request, already
\* accepted, is suspended in `await file.read()`.
C1_Witness ==
    \E j, k \in Reqs :
        /\ j # k
        /\ cam[k].pc = "read" /\ HasStep(cam[k], "backward")
        /\ gradients.call = cam[k].call /\ activations.call = cam[k].call
        /\ req[j].pc = "await_read"

\* C2: over any sequence of generate_cam calls on one model, the gradient and
\* the activation a call reduces were stored by that same call, and a call
\* whose forward pass registered no gradient hook ends by raising or by the
\* empty map of the None branch, never by reducing what an earlier call left.
C2_NoStaleCapture ==
    \A k \in Callers :
        /\ (HasStep(cam[k], "read") /\ ~cam[k].out.missing) =>
               /\ cam[k].g.call = cam[k].call
               /\ cam[k].a.call = cam[k].call
        /\ (cam[k].pc = "ret" /\ ~cam[k].hook) =>
               (cam[k].raised \/ cam[k].out.missing)

\* The second call registered no hook and ended while the gradient slot
\* still holds the gradient stored by the first call.
C2_Witness ==
    /\ cam[0].call = 2 /\ cam[0].pc = "ret" /\ ~cam[0].hook
    /\ gradients.call = 1 /\ activations.call = 2

\* C3: within every detection call the steps of generate_cam happen in the
\* order forward_with_cam, backward, read of gradients and activations.
C3_CaptureOrder ==
    \A r \in Reqs : IsPrefix(cam[r].trace, <<"forward", "backward", "read">>)

C3_Witness ==
    \E r \in Reqs : cam[r].trace = <<"forward", "backward", "read">> /\ req[r].pc = "in_cam"

\* C4 (as claimed): a generate_cam call for which no gradient was captured
\* because the hook was not registered returns an all-zero map of the input
\* tensor's spatial size and does not raise.
C4_MissingCaptureGivesZeroMap ==
    \A k \in Callers :
        (cam[k].pc = "ret" /\ ~cam[k].hook) =>
            /\ ~cam[k].raised
            /\ cam[k].out.map = ZeroMap(IMAGE_SIZE, IMAGE_SIZE)

\* C5: every importance map generate_cam returns (normal reduction, flat
\* map, missing capture) has all its elements within [0, 1].
C5_MapInUnitInterval ==
    red.done =>
        /\ AllInUnit(red.out.map)
        /\ DOMAIN red.out.map.nz \subseteq 1..(red.out.map.rows * red.out.map.cols)

\* A normalised map with a cell strictly between 0 and 1, from a rectified
\* map whose minimum is positive.
C5_Witness ==
    /\ red.done /\ red.out.divided
    /\ MinSeq(red.out.rect) > 0
    /\ \E i \in DOMAIN red.out.map.nz :
         0 < red.out.map.nz[i][1] /\ red.out.map.nz[i][1] < red.out.map.nz[i][2]

\* C6: when the rectified weighted-sum map is constant (maximum equal to
\* minimum, the all-zero map of all-negative contributions included),
\* generate_cam returns an all-zero map of the feature map's shape and
\* evaluates no division.
C6_FlatMapGivesZeros ==
    (red.done /\ ~red.out.missing /\ MaxSeq(red.out.rect) = MinSeq(red.out.rect)) =>
        /\ red.out.map = ZeroMap(1, NumPos)
        /\ ~red.out.divided

\* A constant map that is not zero.
C6_Witness ==
    /\ red.done /\ ~red.out.missing
    /\ MaxSeq(red.out.rect) = MinSeq(red.out.rect)
    /\ MinSeq(red.out.rect) > 0

\* C7 (as claimed): the scalar differentiated is the raw logit for target
\* class 1, the negated logit for target class 0, and the negation is
\* applied for no target value other than 0.
C7_NegationOnlyForZero ==
    \A k \in Callers :
        cam[k].sign # 0 =>
            /\ (cam[k].cls = 1 => cam[k].sign = 1)
            /\ (cam[k].cls = 0 => cam[k].sign = 0 - 1)
            /\ (cam[k].sign = 0 - 1 => cam[k].cls = 0)

\* C7 (amended): the scalar differentiated is the raw logit exactly when the
\* target class is 1, and the negated logit for every other target value,
\* class 0 included; the gradient stored by the backward pass is the
\* derivative of that scalar.
C7_NegationUnlessOne ==
    \A k \in Callers :
        /\ cam[k].sign # 0 =>
               /\ cam[k].cls = TargetClass(cam[k].target, cam[k].x.logit)
               /\ (cam[k].cls = 1 <=> cam[k].sign = 1)
               /\ (cam[k].cls # 1 <=> cam[k].sign = 0 - 1)
        /\ (HasStep(cam[k], "backward") /\ cam[k].hook /\ cam[k].pc = "read") =>
               gradients.data = IF cam[k].cls = 1 THEN cam[k].x.dlogit
                                ELSE Negate(cam[k].x.dlogit)

\* A target value other than 0 and 1 whose logit was negated.
C7_Witness ==
    /\ cam[0].target = <<2>> /\ cam[0].sign = 0 - 1
    /\ cam[0].pc = "read" /\ gradients = Captured(cam[0].call, Negate(cam[0].x.dlogit))

\* C8: _run_inference reports deepfake (is_deepfake, predicted_class 1)
\* exactly when sigmoid(logit) is strictly greater than 0.5, and real
\* (false, 0) otherwise, a probability of exactly 0.5 included.
C8_ThresholdStrict ==
    \A r \in Reqs :
        req[r].inferred =>
            /\ req[r].is_deepfake <=> (Sigmoid(req[r].x.logit) > Half)
            /\ req[r].predicted_class = (IF req[r].is_deepfake THEN 1 ELSE 0)

\* A probability of exactly 0.5 classified as real, beside a deepfake.
C8_Witness ==
    \E r, q \in Reqs :
        /\ req[r].inferred /\ Sigmoid(req[r].x.logit) = Half
        /\ ~req[r].is_deepfake /\ req[r].predicted_class = 0
        /\ req[q].inferred /\ req[q].is_deepfake /\ req[q].predicted_class = 1

\* C9: in every detect call the target class given to generate_cam is the
\* class decided by the plain-forward inference of that call, and the label,
\* the is_deepfake flag and the label named in the explanation text denote
\* that class.
C9_TargetIsDecidedClass ==
    \A r \in Reqs :
        /\ cam[r].pc # "idle" =>
               /\ req[r].inferred
               /\ cam[r].target = <<req[r].predicted_class>>
               /\ cam[r].x = req[r].x
        /\ cam[r].sign # 0 => cam[r].cls = req[r].predicted_class
        /\ req[r].label # "" =>
               /\ (req[r].label = "AI-generated image") <=> (req[r].predicted_class = 1)
               /\ (req[r].label = "Real") <=> (req[r].predicted_class = 0)
               /\ req[r].is_deepfake <=> (req[r].predicted_class = 1)
        /\ req[r].response.success =>
               /\ req[r].response.label = req[r].label
               /\ req[r].response.is_deepfake = req[r].is_deepfake
               /\ req[r].response.description[2] = Lower(req[r].label)

\* A call decided "AI-generated image" whose explanation was targeted at
\* class 1, beside one decided "Real" and targeted at class 0.
C9_Witness ==
    \E r, q \in Reqs :
        /\ req[r].label = "AI-generated image" /\ cam[r].cls = 1 /\ cam[r].sign = 1
        /\ req[q].label = "Real" /\ cam[q].cls = 0 /\ cam[q].sign = 0 - 1

\* C10 (as claimed): for a valid supported image the detect pipeline ends
\* with a success response that carries a label, a non-empty overlay
\* reference and an explanation naming the label in lowercase.
C10_ValidImageSucceeds ==
    \A r \in Reqs :
        (/\ req[r].pc = "done"
         /\ req[r].ctype \in ALLOWED_IMAGE_TYPES
         /\ req[r].openable
         /\ req[r].mode = "RGB") =>
            /\ req[r].status = 200
            /\ req[r].response.success
            /\ req[r].response.label \in {"Real", "AI-generated image"}
            /\ req[r].response.gradcam_image # <<>>
            /\ req[r].response.description = <<"classifying this image as ",
                                                Lower(req[r].response.label)>>

\* Request r began the given step of the handler.
DidStep(r, step) == \E i \in DOMAIN req[r].steps : req[r].steps[i] = step

\* Every file of the results directory was written by a request.
OnlyOverlaysOfRequests ==
    \A n \in DOMAIN results : \E q \in Reqs : req[q].wrote = <<n>> /\ req[q].persisted

\* C11: a detect call that fails in preprocessing, in the plain-forward
\* inference, in generate_cam or in the compositing of the heatmap ends with
\* an error (500) and has written no overlay file: cv2.imwrite was not
\* reached and the results directory holds nothing of that request.
C11_FailureWritesNothing ==
    /\ OnlyOverlaysOfRequests
    /\ \A r \in Reqs :
         req[r].failed \in {"preprocess", "infer", "gradcam", "blend"} =>
             /\ req[r].pc = "done" /\ req[r].status = 500
             /\ ~DidStep(r, "imwrite")
             /\ req[r].wrote = <<>> /\ ~req[r].persisted
             /\ req[r].url = <<>>

\* The compositing failed (a grayscale upload) after inference and
\* generate_cam had succeeded, and the directory is empty.
C11_Witness ==
    /\ req[1].failed = "blend" /\ req[1].status = 500
    /\ DidStep(1, "infer") /\ cam[1].pc = "ret" /\ ~cam[1].raised
    /\ DOMAIN results = {}

C13_BadContentTypeRejected ==
    \A r \in Reqs :
        (req[r].pc # "new" /\ (req[r].ctype = "" \/ req[r].ctype \notin ALLOWED_IMAGE_TYPES)) =>
            /\ req[r].pc = "done" /\ req[r].status = 400
            /\ req[r].steps = <<"validate">>
            /\ req[r].wrote = <<>>
            /\ DOMAIN results = {}

C13_Witness ==
    /\ req[1].ctype = "text/plain" /\ req[1].status = 400
    /\ req[1].pc = "done" /\ req[1].failed = "validate"

\* C14 (as claimed): every upload whose payload exceeds the size ceiling is
\* rejected (400) by the validation, before the body is read or opened,
\* whether or not the upload reports its size.
C14_OversizedRejected ==
    \A r \in Reqs :
        (req[r].pc # "new" /\ req[r].ctype \in ALLOWED_IMAGE_TYPES
                           /\ req[r].bytes > SizeCeiling) =>
            /\ req[r].pc = "done" /\ req[r].status = 400
            /\ ~DidStep(r, "read") /\ ~DidStep(r, "open")

\* C15 (as claimed): an opened image whose width or height is below 32 or
\* above 4096 is rejected (400) and no preprocessing, inference or Grad-CAM
\* step begins for it.
C15_BadDimensionsRejected ==
    \A r \in Reqs :
        (req[r].openable /\ ~validate_image_dimensions(req[r].dims, 4096)) =>
            /\ req[r].pc = "done" /\ req[r].status = 400
            /\ ~DidStep(r, "preprocess") /\ ~DidStep(r, "infer") /\ ~DidStep(r, "gradcam")

\* C16 (as claimed): a corrupted byte stream declared with a supported
\* content type ends with a client error (400), whether Image.open rejects it
\* or its pixel data fails to load later.
C16_CorruptIsClientError ==
    \A r \in Reqs :
        (/\ req[r].pc = "done" /\ DidStep(r, "open")
         /\ req[r].ctype \in ALLOWED_IMAGE_TYPES
         /\ (~req[r].openable \/ ~req[r].complete)) =>
            req[r].status = 400

\* C17: a report request for a session identifier add_session was never
\* called with is answered 404 whatever the cache holds, and the request
\* leaves the session cache as it was.
C17_UnknownSessionNotFound ==
    /\ [](last.op = "report" /\ ~last.known => last.status = 404 /\ ~last.found)
    /\ [][(last' # last /\ last'.op = "report") =>
              detection_cache' = detection_cache]_vars

\* An unregistered identifier was asked for while the cache held another
\* session.
C17_Witness ==
    /\ last.op = "report" /\ ~last.known /\ last.status = 404
    /\ DOMAIN detection_cache # {} /\ last.arg[1] \notin DOMAIN registered

\* C18 (as claimed): a report request for a session registered more than
\* MAX_SESSION_AGE_MINUTES ago is answered 404, also when the periodic
\* cleanup has not run since the session expired.
C18_ExpiredSessionNotFound ==
    (last.op = "report" /\ last.known /\ last.expired) => last.status = 404

\* The gradcam_*.png files of a directory.
Overlays(dir) == {n \in DOMAIN dir : n[1] = "gradcam"}

\* Directory `after` is `before` without the files of `gone`.
IsRemoval(before, after, gone) ==
    /\ DOMAIN after = DOMAIN before \ gone
    /\ \A n \in DOMAIN after : after[n] = before[n]

\* C19: cleanup_old_files(max_age_hours=N) deletes exactly the gradcam_*.png
\* files whose age is greater than N hours, leaves every other file as it
\* was, and returns the number of files it deleted.
C19_DeletesExactlyOlder ==
    last.op = "cleanup_old_files" =>
        LET older == {n \in Overlays(last.before) :
                          last.at - last.before[n] > 60 * last.arg[1]}
        IN  /\ IsRemoval(last.before, results, older)
            /\ last.ret = Cardinality(older)

\* Overlays aged 1h, 25h and 48h and another file aged 48h, N = 24: the 25h
\* and the 48h overlays are gone, 2 is returned.
C19_Witness ==
    /\ last.op = "cleanup_old_files" /\ last.arg = <<RESULTS_CLEANUP_HOURS>>
    /\ last.ret = 2
    /\ Cardinality(Overlays(last.before)) = 3
    /\ {last.at - last.before[n] : n \in Overlays(last.before)}
           = {60, 60 * (RESULTS_CLEANUP_HOURS + 1), 60 * MaxAgeHours}
    /\ {last.at - results[n] : n \in Overlays(results)} = {60}
    /\ OtherName \in DOMAIN results
    /\ last.at - results[OtherName] = 60 * MaxAgeHours

\* C20: after cleanup_by_count(max_files=M), M >= 0, with nothing else
\* writing the directory, at most M result files remain, exactly
\* max(0, count - M) files were deleted and that number is returned, no
\* deleted file is newer than a kept one, and no other file was touched.
C20_EvictsOldestToCount ==
    last.op = "cleanup_by_count" =>
        LET count == Cardinality(Overlays(last.before))
            gone  == DOMAIN last.before \ DOMAIN results
        IN  /\ IsRemoval(last.before, results, gone)
            /\ gone \subseteq Overlays(last.before)
            /\ Cardinality(Overlays(results)) <= last.arg[1]
            /\ Cardinality(gone) = Max2(0, count - last.arg[1])
            /\ last.ret = Cardinality(gone)
            /\ \A d \in gone, k \in Overlays(results) : last.before[d] <= results[k]

\* Three overlays of different ages and M = 1: the two oldest were evicted.
C20_Witness ==
    /\ last.op = "cleanup_by_count" /\ last.arg = <<1>> /\ last.ret = 2
    /\ Cardinality({last.before[n] : n \in Overlays(last.before)}) = 3
    /\ Cardinality(Overlays(results)) = 1
    /\ OtherName \in DOMAIN results

\* C21: a second run of cleanup_old_files, or of cleanup_by_count, with the
\* same argument, the same clock and no write in between deletes nothing,
\* returns 0 and leaves the results directory as the first run left it.
C21_CleanupIdempotent ==
    (last.op \in {"cleanup_old_files", "cleanup_by_count"} /\ last.prior # <<>>) =>
        /\ last.ret = 0
        /\ results = last.before

\* The first run of cleanup_old_files deleted two files, the second none.
C21_Witness ==
    /\ last.op = "cleanup_old_files" /\ last.prior = <<2>>
    /\ last.ret = 0 /\ results = last.before
    /\ Overlays(results) # {}

\* C27: after cleanup_old_sessions returns, no session of the cache is older
\* than MAX_SESSION_AGE_MINUTES, at most MAX_CACHE_SIZE sessions remain,
\* every session removed without being expired is no newer than any session
\* kept, every session kept is unchanged, and the number returned is the
\* number of sessions removed.
C27_SessionCleanupPostcondition ==
    (last.op = "cleanup_old_sessions" /\ last.arg # <<>>) =>
        LET before   == last.before
            removed  == DOMAIN before \ DOMAIN detection_cache
            isOld(s) == last.at - before[s].timestamp > MAX_SESSION_AGE_MINUTES
        IN  /\ DOMAIN detection_cache \subseteq DOMAIN before
            /\ \A s \in DOMAIN detection_cache : detection_cache[s] = before[s]
            /\ \A s \in DOMAIN detection_cache : ~isOld(s)
            /\ Cardinality(DOMAIN detection_cache) <= last.arg[1]
            /\ \A e \in removed, k \in DOMAIN detection_cache :
                   ~isOld(e) => before[e].timestamp <= before[k].timestamp
            /\ \A e \in removed :
                   isOld(e) \/ Cardinality({s \in DOMAIN before : ~isOld(s)}) > last.arg[1]
            /\ last.ret = Cardinality(removed)

\* Of two sessions within the window the older was evicted for size.
C27_Witness ==
    /\ last.op = "cleanup_old_sessions" /\ last.arg = <<1>> /\ last.ret = 1
    /\ Cardinality(DOMAIN last.before) = 2
    /\ Cardinality(DOMAIN detection_cache) = 1
    /\ \E e \in DOMAIN last.before \ DOMAIN detection_cache :
         /\ last.at - last.before[e].timestamp <= MAX_SESSION_AGE_MINUTES
         /\ \A k \in DOMAIN detection_cache :
              last.before[e].timestamp < last.before[k].timestamp

\* C26: any two detect requests that write an overlay, two requests of the
\* same second included, write it under different file names.
C26_DistinctOverlayNames ==
    \A r, q \in Reqs :
        (r # q /\ req[r].wrote # <<>> /\ req[q].wrote # <<>>) =>
            req[r].wrote # req[q].wrote

\* C29: whatever the colour mode of the upload, the array handed to the
\* compositor has three channels like the heatmap, so the blend never fails.
C29_CompositorGetsThreeChannels ==
    \A r \in Reqs :
        DidStep(r, "blend") =>
            /\ ArrayChannels(req[r].mode) = <<3>>
            /\ req[r].failed # "blend"

C23_StartupAlwaysCompletes ==
    model.built =>
        /\ phase = "serving"
        /\ model.services
        /\ model.log \in {"No custom weights found", "Falling back",
                          "Loaded custom trained weights"}

\* C24: when the checkpoint fails to load because its parameter names or
\* shapes do not match the model, the serving model holds the baseline value
\* of every parameter.
C24_FallbackIsBaseline ==
    (phase = "serving" /\ model.log = "Falling back"
        /\ model.cfg.checkpoint.kind = "state_dict") =>
        \A p \in Params : model.weights[p] = "baseline"

\* C25: once startup has completed, the model stays as startup left it over
\* any detect requests: in eval mode, every parameter with requires_grad
\* False, and no step of a request changes the weights, the mode, the
\* requires_grad flags or the device.
C25_ModelFrozenWhileServing ==
    /\ [](phase = "serving" =>
            ~model.training /\ ~featuresRG /\ ~classifierRG)
    /\ [][phase = "serving" =>
            /\ model' = model
            /\ featuresRG' = featuresRG /\ classifierRG' = classifierRG
            /\ phase' = "serving"]_vars

\* A detect request ran its forward and backward pass on a model that holds
\* checkpoint weights, and ended.
C25_Witness ==
    /\ phase = "serving" /\ req[1].pc = "done"
    /\ DidStep(1, "infer") /\ cam[1].pc = "ret" /\ ~cam[1].raised
    /\ \E p \in Params : model.weights[p] = "checkpoint"
    /\ ~model.training /\ ~featuresRG /\ ~classifierRG

\* C22: a cleanup running in the scheduler's worker thread, interleaved with
\* overlay writes and with another cleanup deleting files, deletes only
\* files older than the retention limit (so never an overlay within it, and
\* never one being written, whose modification time is the present), and
\* never fails with an error because the directory changed between its
\* listing, stat and unlink.
C22_SweepSafeUnderConcurrency ==
    /\ [](~sweep.failed)
    /\ [][sweep'.deleted > sweep.deleted =>
            \A f \in DOMAIN results \ DOMAIN results' :
                sweep.now - results[f] > 60 * RESULTS_CLEANUP_HOURS]_vars

\* C30: once the stop event is set, the scheduler eventually terminates and
\* starts no further cleanup; a shutdown that is over has left the task
\* finished or cancelled; and the task does not terminate before the stop
\* event is set, whatever a scheduled cleanup raised.
C30_StopEndsScheduler ==
    /\ [](sched.stop => <>(sched.pc \in {"done", "cancelled"}))
    /\ [][sched.stop => sched'.runs = sched.runs]_vars
    /\ [](sched.shutdown \in {"ended", "aborted"} => sched.pc \in {"done", "cancelled"})
    /\ [](~sched.stop => sched.pc \notin {"done", "cancelled"})

====
